---------------------------- MODULE Spec2Model ----------------------------
(***************************************************************************)
(* State-machine model of ConversionWorker (src/main.py): check_tools(),   *)
(* log() and run(), the batch loop with its three conversion strategies    *)
(* (ffmpeg, webptools, PIL).  The file system, the external tools and the  *)
(* image library are the environment: each of their calls is a             *)
(* nondeterministic choice over the outcomes the call can have.            *)
(***************************************************************************)
EXTENDS Integers, Sequences, FiniteSets, TLC

(* ------------------------------ bounds --------------------------------- *)

\* longest batch (len(self.files)) explored
MaxFiles == 2

\* largest n_frames of an animated input explored
MaxFrames == 2

\* longest batch for which the progress values are computed
MaxTotal == 24

(* ------------------------------ inputs --------------------------------- *)

\* An entry of self.files that is not a str (None, bytes, ...): the
\* constructor accepts it when debug_mode is false (main.py:39-45).
NotStr == [dir |-> "", stem |-> "", ext |-> "notstr"]

\* the candidate paths d/a.webp, d/a.WEBP and d/b.txt, as directory, name
\* without extension, and extension
Paths ==
    {[dir |-> "d", stem |-> "a", ext |-> "webp"],
     [dir |-> "d", stem |-> "a", ext |-> "WEBP"],
     [dir |-> "d", stem |-> "b", ext |-> "txt"]}

Dirs == {f.dir : f \in Paths}

Entries == Paths \cup {NotStr}

\* file.lower().endswith('.webp')                          (main.py:111)
IsWebp(file) == file.ext \in {"webp", "WEBP"}

\* os.path.join(os.path.dirname(file), 'result')           (main.py:137)
OutputDir(file) == file.dir

\* os.path.join(output_dir, splitext(basename)[0] + '.gif') (main.py:149-150)
OutputPath(file) == <<file.dir, file.stem, "gif">>

\* os.path.join(output_dir, f"temp_{splitext(basename)[0]}.png") (main.py:191)
TempPng(file) == <<file.dir, file.stem, "png">>

OutputPaths == {OutputPath(f) : f \in {g \in Paths : IsWebp(g)}}

TempPaths == {TempPng(f) : f \in {g \in Paths : IsWebp(g)}}

\* what a path of the file system holds: nothing, a file of size 0, or a
\* file of size > 0
FileStates == {"absent", "empty", "data"}

\* what a writer did to its destination: left it alone, left a file of size
\* 0, or left a file of size > 0
Writes == {"none", "empty", "data"}

\* the destination after a writer ran
Written(old, w) == IF w = "none" THEN old ELSE w

\* os.path.exists(p) alone, the size unchecked
Exists(store, p) == store[p] # "absent"

\* os.path.exists(p) and os.path.getsize(p) > 0   (main.py:175, 197, 205, 292, 324)
ExistsNonEmpty(store, p) == store[p] = "data"

\* declared duration of a frame: absent from img.info (the key 'duration'
\* is missing, main.py:251), or a value in ms
NoDuration == 0

DeclaredDurations == {NoDuration, 150}

\* img.info.get('duration', 100)                           (main.py:251)
DefaultDuration == 100

Duration(declared) == IF declared = NoDuration THEN DefaultDuration ELSE declared

VARIABLES
    files,            \* self.files
    debug_mode,       \* self.debug_mode
    pc,               \* position of run()
    i,                \* loop index of enumerate(self.files, 1)
    total,            \* total
    has_ffmpeg,       \* has_ffmpeg
    has_webptools,    \* has_webptools
    success_count,    \* success_count
    failed_count,     \* failed_count
    converted,        \* converted
    fs,               \* the output files result/<stem>.gif
    tmp,              \* the temporary raster files result/temp_<stem>.png
    result_dirs,      \* the result directories that exist
    out,              \* what the last step emitted and called, in order
    progress_emitted, \* history: the progress events, with the file index
    error_events,     \* history: number of self.error.emit calls
    batch_errors,     \* history: error events of the batch-level handler
    finished_events,  \* history: number of self.finished.emit calls
    summary,          \* history: the summary lines logged
    handled,          \* history: outcome of each file handled so far
    cur,              \* history: what happened to the file handled last
    encoded           \* history: the multi-frame encoder calls for this file

vars == <<files, debug_mode, pc, i, total, has_ffmpeg, has_webptools,
          success_count, failed_count, converted, fs, tmp, result_dirs, out,
          progress_emitted, error_events, batch_errors, finished_events,
          summary, handled, cur, encoded>>

inputs == <<files, debug_mode>>

disk == <<fs, tmp, result_dirs>>

(* ------------------------------ events --------------------------------- *)

\* a call of logger.debug/info/warning/error                (main.py:49-56)
LogCall(message, level) == [ev |-> "log", level |-> level, msg |-> message, val |-> 0]

\* self.log_message.emit(message)                           (main.py:60)
LogMessage(message) == [ev |-> "log_message", level |-> "", msg |-> message, val |-> 0]

\* self.error.emit(error_msg)
ErrorEvent(message) == [ev |-> "error", level |-> "", msg |-> message, val |-> 0]

\* self.progress.emit(value)
ProgressEvent(value) == [ev |-> "progress", level |-> "", msg |-> "", val |-> value]

\* a call the step made to its environment and what came back: not an
\* event of the worker, but part of what the step did
CallEvent(fn, result) == [ev |-> "call", level |-> "", msg |-> fn, val |-> result]

\* self.finished.emit()
FinishedEvent == [ev |-> "finished", level |-> "", msg |-> "", val |-> 0]

\* ConversionWorker.log(message, level)                     (main.py:47-60)
Log(message, level) ==
    <<LogCall(message, level)>> \o
    (IF debug_mode \/ level = "error" \/ level = "warning"
        THEN <<LogMessage(message)>>
        ELSE <<>>)

\* the error events among a step's output
ErrorsIn(evs) == Len(SelectSeq(evs, LAMBDA e : e.ev = "error"))

(* ------------------ int((i / total) * 100), main.py:360 ---------------- *)
(* i / total is a float division and * 100 a float multiplication: two    *)
(* IEEE 754 binary64 operations, each rounded to 53 significant bits,     *)
(* ties to even; int() then truncates.  A significand is a sequence of    *)
(* bits, most significant first; a float is a significand sig and the     *)
(* exponent exp of its leading bit, the value being sig * 2^(exp - 52).   *)

\* bits of the significand of a binary64 float
SignificandBits == 53

\* bits of a limb of the multiplication
LimbBits == 13

RECURSIVE Pow2(_)
Pow2(n) == IF n = 0 THEN 1 ELSE 2 * Pow2(n - 1)

\* 2^n mod d, by repeated squaring
RECURSIVE Pow2Mod(_, _)
Pow2Mod(n, d) ==
    IF n = 0 THEN 1 % d
    ELSE LET h == Pow2Mod(n \div 2, d)
         IN  (((h * h) % d) * (IF n % 2 = 1 THEN 2 ELSE 1)) % d

\* the remainder left after n bits of the binary expansion of a / b
FractionRest(a, b, n) == (a * Pow2Mod(n, b)) % b

\* bit n (n >= 1) of the binary expansion of a / b, for 0 < a < b
FractionBit(a, b, n) == IF 2 * FractionRest(a, b, n - 1) >= b THEN 1 ELSE 0

\* number of zero bits before the first one bit of the expansion of a / b
LeadingZeros(a, b) ==
    CHOOSE z \in 0..31 : /\ FractionBit(a, b, z + 1) = 1
                         /\ \A y \in 0..(z - 1) : FractionBit(a, b, y + 1) = 0

\* bits + 1, one bit longer when the carry runs out of the top
Increment(bits) ==
    LET zeros == {j \in 1..Len(bits) : bits[j] = 0}
    IN  IF zeros = {}
           THEN [j \in 1..(Len(bits) + 1) |-> IF j = 1 THEN 1 ELSE 0]
           ELSE LET p == CHOOSE j \in zeros : \A q \in zeros : q <= j
                IN  [j \in 1..Len(bits) |->
                        IF j < p THEN bits[j] ELSE IF j = p THEN 1 ELSE 0]

\* round to nearest, ties to even: the bits kept, the first bit dropped, and
\* whether any later dropped bit is set.  The result is the rounded
\* significand and the power of two the carry added (0 or 1).
RoundNearestEven(kept, round_bit, sticky) ==
    IF round_bit = 1 /\ (sticky \/ kept[Len(kept)] = 1)
       THEN LET up == Increment(kept)
            IN  IF Len(up) > Len(kept)
                   THEN [sig |-> SubSeq(up, 1, Len(kept)), carry |-> 1]
                   ELSE [sig |-> up, carry |-> 0]
       ELSE [sig |-> kept, carry |-> 0]

\* the float a / b for integers 0 < a < b
FloatDivide(a, b) ==
    LET z       == LeadingZeros(a, b)
        kept    == [j \in 1..SignificandBits |-> FractionBit(a, b, z + j)]
        round   == FractionBit(a, b, z + SignificandBits + 1)
        sticky  == FractionRest(a, b, z + SignificandBits + 1) # 0
        rounded == RoundNearestEven(kept, round, sticky)
    IN  [sig |-> rounded.sig, exp |-> rounded.carry - (z + 1)]

\* bit m of bits counted from the least significant one, which is bit 0
BitFromLow(bits, m) == IF m < Len(bits) THEN bits[Len(bits) - m] ELSE 0

\* limb t of bits: the value of the LimbBits bits from bit t * LimbBits on
RECURSIVE LimbFrom(_, _, _)
LimbFrom(bits, t, u) ==
    IF u = LimbBits THEN 0
    ELSE BitFromLow(bits, t * LimbBits + u) + 2 * LimbFrom(bits, t, u + 1)

\* the limbs of bits * k for a small integer k, least significant first,
\* from limb t on with the carry of the limbs below
RECURSIVE TimesLimbs(_, _, _, _)
TimesLimbs(bits, k, t, carry) ==
    IF t * LimbBits >= Len(bits)
       THEN <<carry>>
       ELSE LET v == LimbFrom(bits, t, 0) * k + carry
            IN  <<v % Pow2(LimbBits)>> \o TimesLimbs(bits, k, t + 1, v \div Pow2(LimbBits))

\* bits * k for a small integer k > 0, as bits without leading zeros
Times(bits, k) ==
    LET limbs  == TimesLimbs(bits, k, 0, 0)
        bit(m) == (limbs[(m \div LimbBits) + 1] \div Pow2(m % LimbBits)) % 2
        ones   == {m \in 0..(Len(limbs) * LimbBits - 1) : bit(m) = 1}
        top    == CHOOSE m \in ones : \A q \in ones : q <= m
    IN  [j \in 1..(top + 1) |-> bit(top + 1 - j)]

\* the float x * k for a float x > 0 and a small integer k > 0
FloatTimes(x, k) ==
    LET product == Times(x.sig, k)
        extra   == Len(product) - SignificandBits
        kept    == SubSeq(product, 1, SignificandBits)
        round   == IF extra > 0 THEN product[SignificandBits + 1] ELSE 0
        sticky  == \E j \in (SignificandBits + 2)..Len(product) : product[j] = 1
        rounded == RoundNearestEven(kept, round, sticky)
    IN  [sig |-> rounded.sig, exp |-> x.exp + extra + rounded.carry]

\* the integer the first n bits spell
RECURSIVE BitsValue(_, _)
BitsValue(bits, n) ==
    IF n = 0 THEN 0 ELSE 2 * BitsValue(bits, n - 1) + bits[n]

\* int(x) for a float 0 < x < 2^31: the bits worth 2^0 and more
FloatTruncate(x) == IF x.exp < 0 THEN 0 ELSE BitsValue(x.sig, x.exp + 1)

\* int((idx / tot) * 100) for 1 <= idx <= tot; idx / tot is exactly 1.0 when
\* idx = tot, and 1.0 * 100 exactly 100.0
FloatPercent(idx, tot) ==
    IF idx = tot THEN 100
    ELSE FloatTruncate(FloatTimes(FloatDivide(idx, tot), 100))

\* int((idx / tot) * 100) for every batch length explored, computed once
PercentTable == [t \in 1..MaxFiles |-> [k \in 1..t |-> FloatPercent(k, t)]]

\* the share of the files still to come
PercentOfRemaining(idx, tot) == PercentTable[tot][tot - idx + 1]

\* int((i / total) * 100)                                   (main.py:360)
Percent(idx, tot) == PercentTable[tot][idx]

NoFile == [passed |-> FALSE, attempts |-> <<>>, chosen |-> <<>>,
           succ |-> 0, fail |-> 0, errs |-> 0, temp_created |-> FALSE,
           wrote |-> FALSE]

(* ------------------------------- Init ---------------------------------- *)

RECURSIVE SeqsUpTo(_, _)
SeqsUpTo(S, n) ==
    IF n = 0 THEN {<<>>}
    ELSE LET shorter == SeqsUpTo(S, n - 1)
         IN  shorter \cup {Append(s, x) : s \in {t \in shorter : Len(t) = n - 1}, x \in S}

\* ConversionWorker.__init__: files is stored as given; with debug_mode set
\* ', '.join(files) raises on an entry that is not a str, so such a worker
\* is never constructed.  The batch starts in a directory no batch has
\* converted in yet: no result directory, no output, no temporary file.
Init ==
    /\ files \in SeqsUpTo(Entries, MaxFiles)
    /\ debug_mode \in BOOLEAN
    /\ debug_mode => \A k \in 1..Len(files) : files[k] # NotStr
    /\ pc = "start"
    /\ i = 0
    /\ total = 0
    /\ has_ffmpeg = FALSE
    /\ has_webptools = FALSE
    /\ success_count = 0
    /\ failed_count = 0
    /\ converted = FALSE
    /\ result_dirs = {}
    /\ fs = [p \in OutputPaths |-> "absent"]
    /\ tmp = [p \in TempPaths |-> "absent"]
    /\ out = <<>>
    /\ progress_emitted = <<>>
    /\ error_events = 0
    /\ batch_errors = 0
    /\ finished_events = 0
    /\ summary = <<>>
    /\ handled = <<>>
    /\ cur = NoFile
    /\ encoded = <<>>


(* --------------------------- bookkeeping ------------------------------- *)

\* outcome of a file once run() leaves it
Outcome(c) ==
    IF c.succ > 0 /\ c.fail > 0 THEN "both"
    ELSE IF c.succ > 0 THEN "success"
    ELSE IF c.fail > 0 THEN "failed"
    ELSE IF c.passed THEN "uncounted"
    ELSE "skipped"

\* a per-file failure: one failure counted, one error event
Failed(c, n) == [c EXCEPT !.fail = @ + n, !.errs = @ + n]

\* the step emits evs and changes the counters by nsucc and nfail
Emit(evs, nsucc, nfail) ==
    /\ out' = evs
    /\ error_events' = error_events + ErrorsIn(evs)
    /\ success_count' = success_count + nsucc
    /\ failed_count' = failed_count + nfail

\* a `return` where the code has `continue`: the failure ends the run
ReturnInsteadOfContinue(c) ==
    /\ pc' = "done"
    /\ handled' = Append(handled, Outcome(c))
    /\ cur' = c

\* no `continue`: the failure falls through into the conversion
FallThrough(c) ==
    /\ pc' = "sniff"
    /\ handled' = handled
    /\ cur' = c

\* `continue`: the loop goes to the next file without reaching main.py:360;
\* c is what happened to the file that is left
Continue(c) ==
    /\ pc' = "next"
    /\ handled' = Append(handled, Outcome(c))
    /\ cur' = c

(* ------------------------- check_tools, setup -------------------------- *)

\* what subprocess.run(['ffmpeg', '-version']) can do: exit with code 0
\* having printed its version, exit with code 0 having printed nothing (then
\* splitlines()[0] raises inside the try), exit with another code, raise
\* FileNotFoundError, raise another exception             (main.py:68-84)
ProbeOutcomes == {"exit0", "exit0_no_output", "nonzero", "notfound", "exception"}

\* ConversionWorker.check_tools                             (main.py:62-95)
check_tools(probe) ==
    [ffmpeg    |-> probe = "exit0",
     webptools |-> TRUE,
     logs      |-> <<CallEvent("ffmpeg -version", probe)>>
                   \o (CASE probe = "exit0"     -> Log("ffmpeg_detected", "info")
                         [] probe = "nonzero"   -> Log("ffmpeg_nonzero_exit", "warning")
                         [] probe = "notfound"  -> Log("ffmpeg_not_found", "info")
                         [] probe \in {"exception", "exit0_no_output"} ->
                               Log("ffmpeg_probe_error", "error"))
                   \o Log("check_webptools", "info")]

\* run(), main.py:98-108: probe the tools, set the counters, log the start
Setup ==
    /\ pc = "start"
    /\ \E probe \in ProbeOutcomes :
          LET tools == check_tools(probe)
          IN  /\ has_ffmpeg' = tools.ffmpeg
              /\ has_webptools' = tools.webptools
              /\ Emit(tools.logs \o Log("start_convert", "info"), 0, 0)
    /\ total' = Len(files)
    /\ pc' = "next"
    /\ UNCHANGED <<inputs, i, converted, disk, progress_emitted, batch_errors,
                   finished_events, summary, handled, cur, encoded>>

(* ------------------------------ the loop ------------------------------- *)

\* main.py:110-113: the next entry has the .webp extension
BeginFile ==
    /\ pc = "next"
    /\ i < total
    /\ files[i + 1] # NotStr
    /\ IsWebp(files[i + 1])
    /\ i' = i + 1
    /\ pc' = "precheck"
    /\ cur' = NoFile
    /\ encoded' = <<>>
    /\ Emit(Log("processing_file", "info"), 0, 0)
    /\ UNCHANGED <<inputs, total, has_ffmpeg, has_webptools, converted, disk,
                   progress_emitted, batch_errors, finished_events, summary,
                   handled>>

\* an entry with another extension handled as a failed conversion
SkipFileAsFailure ==
    /\ pc = "next"
    /\ i < total
    /\ files[i + 1] # NotStr
    /\ ~IsWebp(files[i + 1])
    /\ i' = i + 1
    /\ pc' = "progress"
    /\ cur' = Failed(NoFile, 1)
    /\ encoded' = <<>>
    /\ Emit(Log("skip_non_webp", "warning") \o <<ErrorEvent("skip_non_webp")>>, 0, 1)
    /\ UNCHANGED <<inputs, total, has_ffmpeg, has_webptools, converted, disk,
                   progress_emitted, batch_errors, finished_events, summary,
                   handled>>

\* main.py:357-358: the next entry has another extension
SkipFile ==
    /\ pc = "next"
    /\ i < total
    /\ files[i + 1] # NotStr
    /\ ~IsWebp(files[i + 1])
    /\ i' = i + 1
    /\ pc' = "progress"
    /\ cur' = NoFile
    /\ encoded' = <<>>
    /\ Emit(Log("skip_non_webp", "warning"), 0, 0)
    /\ UNCHANGED <<inputs, total, has_ffmpeg, has_webptools, converted, disk,
                   progress_emitted, batch_errors, finished_events, summary,
                   handled>>

\* a batch-level handler that goes on to emit finished()
BatchExceptionThenFinished ==
    /\ pc = "next"
    /\ i < total
    /\ files[i + 1] = NotStr
    /\ i' = i + 1
    /\ pc' = "done"
    /\ Emit(Log("batch_exception", "error") \o Log("error_stack", "debug")
            \o <<ErrorEvent("batch_exception"), FinishedEvent>>, 0, 0)
    /\ batch_errors' = batch_errors + 1
    /\ finished_events' = finished_events + 1
    /\ UNCHANGED <<inputs, total, has_ffmpeg, has_webptools, converted, disk,
                   progress_emitted, summary, handled, cur, encoded>>

\* main.py:111 raises (file.lower() of an entry that is no str), outside the
\* per-file try: the batch-level handler main.py:365-370 ends the run
BatchException ==
    /\ pc = "next"
    /\ i < total
    /\ files[i + 1] = NotStr
    /\ i' = i + 1
    /\ pc' = "done"
    /\ Emit(Log("batch_exception", "error") \o Log("error_stack", "debug")
            \o <<ErrorEvent("batch_exception")>>, 0, 0)
    /\ batch_errors' = batch_errors + 1
    /\ UNCHANGED <<inputs, total, has_ffmpeg, has_webptools, converted, disk,
                   progress_emitted, finished_events, summary, handled, cur,
                   encoded>>

\* a summary that counts as total the files that were counted
SummaryLineOfCounted ==
    [success |-> success_count, failed |-> failed_count,
     total |-> success_count + failed_count]

\* main.py:362: the counts the summary line reports
SummaryLine ==
    [success |-> success_count, failed |-> failed_count, total |-> total]

\* main.py:362-364: the loop is over
Summary ==
    /\ pc = "next"
    /\ i = total
    /\ pc' = "done"
    /\ summary' = Append(summary, SummaryLine)
    /\ Emit(Log("summary", "info") \o <<FinishedEvent>>, 0, 0)
    /\ finished_events' = finished_events + 1
    /\ UNCHANGED <<inputs, i, total, has_ffmpeg, has_webptools, converted, disk,
                   progress_emitted, batch_errors, handled, cur, encoded>>

\* main.py:360
Progress ==
    /\ pc = "progress"
    /\ pc' = "next"
    /\ \E value \in {Percent(i, total)} :
          /\ Emit(<<ProgressEvent(value)>>, 0, 0)
          /\ progress_emitted' = Append(progress_emitted, [idx |-> i, val |-> value])
    /\ handled' = Append(handled, Outcome(cur))
    /\ UNCHANGED <<inputs, i, total, has_ffmpeg, has_webptools, converted, disk,
                   batch_errors, finished_events, summary, cur, encoded>>

(* --------------------------- preconditions ----------------------------- *)

\* os.path.exists(file), then os.path.getsize(file)         (main.py:116-134)
StatOutcomes == {"missing", "empty", "getsize_raises", "nonempty"}

\* os.makedirs(output_dir, exist_ok=True)                   (main.py:139)
MkdirOutcomes == {"ok", "raises"}

\* main.py:115-151
Precheck ==
    /\ pc = "precheck"
    /\ \E stat \in StatOutcomes, mk \in MkdirOutcomes :
          LET file == files[i]
              dir  == OutputDir(file)
              found == <<CallEvent("os.path.exists", "found")>>
              size_logs == IF stat = "getsize_raises"
                              THEN <<CallEvent("os.path.getsize", "raises")>>
                                   \o Log("getsize_error", "error")
                              ELSE <<CallEvent("os.path.getsize", "nonempty")>>
                                   \o Log("file_size", "debug")
          IN  \* an existing directory is confirmed, never an error
              /\ mk = "raises" => dir \notin result_dirs
              /\ CASE stat = "missing" ->
                        /\ Emit(<<CallEvent("os.path.exists", "missing")>>
                                \o Log("file_missing", "error")
                                \o <<ErrorEvent("file_missing")>>, 0, 1)
                        /\ Continue(Failed(cur, 1))
                        /\ UNCHANGED result_dirs
                   [] stat = "empty" ->
                        /\ Emit(found \o <<CallEvent("os.path.getsize", "empty")>>
                                \o Log("file_size", "debug") \o Log("file_empty", "error")
                                \o <<ErrorEvent("file_empty")>>, 0, 1)
                        /\ Continue(Failed(cur, 1))
                        /\ UNCHANGED result_dirs
                   [] stat \in {"getsize_raises", "nonempty"} /\ mk = "raises" ->
                        /\ Emit(found \o size_logs
                                \o <<CallEvent("os.makedirs", "raises")>>
                                \o Log("output_dir_failed", "error")
                                \o <<ErrorEvent("output_dir_failed")>>, 0, 1)
                        /\ Continue(Failed(cur, 1))
                        /\ UNCHANGED result_dirs
                   [] stat \in {"getsize_raises", "nonempty"} /\ mk = "ok" ->
                        /\ Emit(found \o size_logs
                                \o <<CallEvent("os.makedirs", "ok")>>
                                \o Log("output_dir_ok", "debug")
                                \o Log("output_path", "debug"), 0, 0)
                        /\ cur' = [cur EXCEPT !.passed = TRUE]
                        /\ result_dirs' = result_dirs \cup {dir}
                        /\ pc' = "sniff"
                        /\ UNCHANGED handled
    /\ UNCHANGED <<inputs, i, total, has_ffmpeg, has_webptools, converted, fs, tmp,
                   progress_emitted, batch_errors, finished_events, summary,
                   encoded>>

\* magic.from_file(file, mime=True)                         (main.py:155-161)
MimeOutcomes == {"image", "other", "raises"}

\* main.py:155-164: the advisory MIME check, then converted = False
Sniff ==
    /\ pc = "sniff"
    /\ \E mime \in MimeOutcomes :
          Emit(CASE mime = "image"  -> Log("mime_type", "debug")
                 [] mime = "other"  -> Log("mime_type", "debug")
                                       \o Log("mime_mismatch", "warning")
                 [] mime = "raises" -> Log("mime_error", "warning"), 0, 0)
    /\ converted' = FALSE
    /\ pc' = "external"
    /\ UNCHANGED <<inputs, i, total, has_ffmpeg, has_webptools, disk,
                   progress_emitted, batch_errors, finished_events, summary,
                   handled, cur, encoded>>

(* ------------------------- strategy 1: ffmpeg -------------------------- *)

\* a strategy was attempted for the current file
Attempted(c, strategy) == [c EXCEPT !.attempts = Append(@, strategy)]

\* a strategy left a file at the output path of the current file
Wrote(c, w) == [c EXCEPT !.wrote = @ \/ w # "none"]

\* a strategy verified its output: success_count += 1
Succeeded(c, strategy) ==
    [c EXCEPT !.chosen = Append(@, strategy), !.succ = @ + 1]

\* how the ffmpeg process of main.py:171 ends: exit code 0, another exit
\* code, or it cannot be run at all
ProcessOutcomes == {"exit0", "nonzero", "cannot_run"}

\* subprocess.run without check=True: only a process that cannot be run raises
ProcessRaisesUnchecked(exit) == exit = "cannot_run"

\* subprocess.run(cmd, check=True, ...) raises on a non-zero exit code and
\* when the process cannot be run                            (main.py:171)
ProcessRaises(exit) == exit # "exit0"

\* ffmpeg tried whatever check_tools reported
TryExternalAlways == TRUE

\* main.py:165
TryExternal == has_ffmpeg

\* main.py:165-184
External ==
    /\ pc = "external"
    /\ pc' = "library"
    /\ IF TryExternal
          THEN \E proc \in ProcessOutcomes, w \in Writes :
                  LET path == OutputPath(files[i])
                      fs1  == [fs EXCEPT ![path] = Written(@, w)]
                      c1   == Wrote(Attempted(cur, "External"), w)
                      head == Log("use_ffmpeg", "info") \o Log("exec_command", "debug")
                              \o <<CallEvent("subprocess.run", proc)>>
                  IN  /\ fs' = fs1
                      \* a process that did not run wrote nothing
                      /\ proc = "cannot_run" => w = "none"
                      /\ CASE ProcessRaises(proc) ->
                                /\ Emit(head \o Log("ffmpeg_failed", "warning"), 0, 0)
                                /\ cur' = c1
                                /\ UNCHANGED converted
                           [] ~ProcessRaises(proc) /\ ExistsNonEmpty(fs1, path) ->
                                /\ Emit(head \o Log("ffmpeg_ok", "info"), 1, 0)
                                /\ cur' = Succeeded(c1, "External")
                                /\ converted' = TRUE
                           [] ~ProcessRaises(proc) /\ ~ExistsNonEmpty(fs1, path) ->
                                /\ Emit(head \o Log("ffmpeg_no_output", "error")
                                        \o Log("ffmpeg_stderr", "debug"), 0, 0)
                                /\ cur' = c1
                                /\ UNCHANGED converted
          ELSE /\ Emit(<<>>, 0, 0)
               /\ UNCHANGED <<fs, cur, converted>>
    /\ UNCHANGED <<inputs, i, total, has_ffmpeg, has_webptools, tmp, result_dirs,
                   progress_emitted, batch_errors, finished_events, summary,
                   handled, encoded>>

(* ------------------------ strategy 2: webptools ------------------------ *)

\* dwebp(input_image, output_image, ...): raises, or returns having left
\* the raster file alone, empty or written                  (main.py:194)
DwebpOutcomes == {"raises"} \cup Writes

\* Image.open(temp_png); png_img.save(output_path, 'GIF')   (main.py:199-200)
ReencodeOutcomes == {"open_raises", "save_raises", "saved"}

\* the webptools strategy tried whatever ffmpeg achieved
TryLibraryAlways == has_webptools

\* main.py:187
TryLibrary == ~converted /\ has_webptools

\* main.py:203: os.remove(temp_png)
RemoveTemp(store, t) == [store EXCEPT ![t] = "absent"]

\* main.py:213-216: the handler of the webptools strategy
LibraryHandler == Log("webptools_error", "error") \o Log("error_stack", "debug")

\* main.py:187-216
Library ==
    /\ pc = "library"
    /\ pc' = "native"
    /\ IF TryLibrary
          THEN \E dw \in DwebpOutcomes, re \in ReencodeOutcomes, w \in Writes :
                  LET file == files[i]
                      path == OutputPath(file)
                      t    == TempPng(file)
                      tmp1 == IF dw = "raises" THEN tmp
                              ELSE [tmp EXCEPT ![t] = Written(@, dw)]
                      fs1  == [fs EXCEPT ![path] = Written(@, w)]
                      c0   == Attempted(cur, "Library")
                      c1   == Wrote([c0 EXCEPT !.temp_created = dw \in {"empty", "data"}], w)
                      head == Log("use_webptools", "info")
                  IN  CASE dw = "raises" ->
                             /\ re = "saved" /\ w = "none"
                             /\ Emit(head \o LibraryHandler, 0, 0)
                             /\ cur' = c1
                             /\ UNCHANGED <<fs, tmp, converted>>
                        [] dw # "raises" /\ ~ExistsNonEmpty(tmp1, t) ->
                             /\ re = "saved" /\ w = "none"
                             /\ Emit(head \o Log("webptools_result", "debug")
                                     \o Log("webptools_no_png", "error"), 0, 0)
                             /\ cur' = c1
                             /\ tmp' = tmp1
                             /\ UNCHANGED <<fs, converted>>
                        [] dw # "raises" /\ ExistsNonEmpty(tmp1, t)
                              /\ re = "open_raises" ->
                             /\ w = "none"
                             /\ Emit(head \o Log("webptools_result", "debug")
                                     \o LibraryHandler, 0, 0)
                             /\ cur' = c1
                             /\ tmp' = tmp1
                             /\ UNCHANGED <<fs, converted>>
                        [] dw # "raises" /\ ExistsNonEmpty(tmp1, t)
                              /\ re = "save_raises" ->
                             /\ Emit(head \o Log("webptools_result", "debug")
                                     \o LibraryHandler, 0, 0)
                             /\ cur' = c1
                             /\ tmp' = tmp1
                             /\ fs' = fs1
                             /\ UNCHANGED converted
                        [] dw # "raises" /\ ExistsNonEmpty(tmp1, t)
                              /\ re = "saved" /\ ExistsNonEmpty(fs1, path) ->
                             /\ Emit(head \o Log("webptools_result", "debug")
                                     \o Log("webptools_ok", "info"), 1, 0)
                             /\ cur' = Succeeded(c1, "Library")
                             /\ tmp' = RemoveTemp(tmp1, t)
                             /\ fs' = fs1
                             /\ converted' = TRUE
                        [] dw # "raises" /\ ExistsNonEmpty(tmp1, t)
                              /\ re = "saved" /\ ~ExistsNonEmpty(fs1, path) ->
                             /\ Emit(head \o Log("webptools_result", "debug")
                                     \o Log("webptools_gif_failed", "error"), 0, 0)
                             /\ cur' = c1
                             /\ tmp' = RemoveTemp(tmp1, t)
                             /\ fs' = fs1
                             /\ UNCHANGED converted
          ELSE /\ Emit(<<>>, 0, 0)
               /\ UNCHANGED <<fs, tmp, cur, converted>>
    /\ UNCHANGED <<inputs, i, total, has_ffmpeg, has_webptools, result_dirs,
                   progress_emitted, batch_errors, finished_events, summary,
                   handled, encoded>>

(* --------------------------- strategy 3: PIL --------------------------- *)

\* img.save(...)                                            (main.py:280, 321)
SaveOutcomes == {"raises", "saved"}

\* PIL tried only when webptools is unavailable (an if/elif chain)
TryNativeElse == ~converted /\ ~has_webptools

\* PIL tried whatever the strategies before it achieved
TryNativeAlways == TRUE

\* main.py:219
TryNative == ~converted

\* when the image object brings img.info['duration'] up to date with the
\* frame img.seek moved to: in seek itself, or only when the frame is
\* loaded, which img.convert does (main.py:255) after main.py:251 has read
\* the duration.  PIL's WebP reader does the latter, its GIF reader the
\* former, and Image.open picks the reader from the content of the file.
InfoUpdates == {"on_seek", "on_load"}

\* what img.info holds under 'duration' when main.py:251 reads it for the
\* k-th frame, declared being what the frames of the file declare: the
\* entry of that frame, or still the one of the frame loaded last, none
\* before the first load
InfoDuration(declared, k, update) ==
    IF update = "on_seek" THEN declared[k]
    ELSE IF k = 1 THEN NoDuration
    ELSE declared[k - 1]

\* the frame read loop main.py:249-258 over the first m frames: frame k of
\* the file (0-based, as img.seek takes it) is copied, the duration read
\* from img.info appended
ReadFrames(declared, m, update) ==
    [frames    |-> [k \in 1..m |-> k - 1],
     durations |-> [k \in 1..m |-> Duration(InfoDuration(declared, k, update))]]

\* main.py:272-278: each frame pasted on a white RGB canvas, order kept
Composite(frames) == [k \in 1..Len(frames) |-> [frame |-> frames[k], mode |-> "RGB"]]

\* main.py:280-289: the call of the multi-frame encoder
EncoderCall(rgb_frames, durations) ==
    [base          |-> rgb_frames[1],
     append_images |-> Tail(rgb_frames),
     duration      |-> durations,
     loop          |-> 0,
     disposal      |-> 2]

RECURSIVE Repeat(_, _)
Repeat(evs, n) == IF n = 0 THEN <<>> ELSE evs \o Repeat(evs, n - 1)

\* main.py:220-240: the messages logged before the image is handled
NativeHead ==
    Log("use_pil", "info") \o Log("file_header", "debug") \o Log("pil_opened", "debug")
    \o Log("image_info", "debug") \o Log("is_animated", "debug")

\* a handler of the PIL strategy that logs and counts but emits no error
NativeHandlerSilent ==
    Log("pil_error", "error") \o Log("error_stack", "debug")

\* main.py:341-347: the handler of the PIL strategy
NativeHandler ==
    Log("pil_error", "error") \o Log("error_stack", "debug")
    \o <<ErrorEvent("pil_error")>>

\* main.py:259-265: the handler of the frame read loop, which ends in `continue`
FrameReadHandler ==
    Log("frame_read_error", "error") \o Log("error_stack", "debug")
    \o <<ErrorEvent("frame_read_error")>>

\* main.py:219-347, the image cannot be opened
NativeOpenFails ==
    /\ Emit(Log("use_pil", "info") \o NativeHandler, 0, 1)
    /\ cur' = Failed(Attempted(cur, "Native"), 1)
    /\ pc' = "progress"
    /\ UNCHANGED <<fs, handled, encoded>>

\* a frame read error after which the frames read so far are still encoded
NativeFrameReadKeepsPartial(n, fail_at) ==
    /\ Emit(NativeHead \o Log("animated_start", "debug")
            \o Repeat(Log("frame_read", "debug"), fail_at - 1)
            \o FrameReadHandler, 0, 1)
    /\ Continue(Failed(Attempted(cur, "Native"), 1))
    /\ encoded' =
          IF fail_at = 1 THEN encoded
          ELSE LET read == ReadFrames([k \in 1..n |-> NoDuration], fail_at - 1, "on_seek")
               IN  Append(encoded, EncoderCall(Composite(read.frames), read.durations))
    /\ UNCHANGED fs

\* main.py:242-265, reading frame fail_at of n raises
NativeFrameReadFails(n, fail_at) ==
    /\ Emit(NativeHead \o Log("animated_start", "debug")
            \o Repeat(Log("frame_read", "debug"), fail_at - 1)
            \o FrameReadHandler, 0, 1)
    /\ Continue(Failed(Attempted(cur, "Native"), 1))
    /\ UNCHANGED <<fs, encoded>>

\* main.py:242-307, every frame is read and the encoder is called
NativeAnimated(n, declared, update, save, w) ==
    LET path  == OutputPath(files[i])
        read  == ReadFrames(declared, n, update)
        rgb   == Composite(read.frames)
        fs1   == [fs EXCEPT ![path] = Written(@, w)]
        c1    == Wrote(Attempted(cur, "Native"), w)
        head  == <<CallEvent("Image.open", declared)>>
                 \o NativeHead \o Log("animated_start", "debug")
                 \o Repeat(Log("frame_read", "debug"), n)
                 \o Log("save_start", "debug")
    IN  /\ encoded' = Append(encoded, EncoderCall(rgb, read.durations))
        /\ fs' = fs1
        /\ pc' = "progress"
        /\ UNCHANGED handled
        /\ CASE save = "raises" ->
                  /\ Emit(head \o Log("save_error", "error")
                          \o Log("error_stack", "debug")
                          \o <<ErrorEvent("save_error")>>, 0, 1)
                  /\ cur' = Failed(c1, 1)
             [] save = "saved" /\ ExistsNonEmpty(fs1, path) ->
                  /\ Emit(head \o Log("gif_saved", "info"), 1, 0)
                  /\ cur' = Succeeded(c1, "Native")
             [] save = "saved" /\ ~ExistsNonEmpty(fs1, path) ->
                  /\ Emit(head \o Log("gif_write_failed", "error")
                          \o <<ErrorEvent("gif_write_failed")>>, 0, 1)
                  /\ cur' = Failed(c1, 1)

\* main.py:313-339, a static image
NativeStatic(save, w) ==
    LET path  == OutputPath(files[i])
        fs1   == [fs EXCEPT ![path] = Written(@, w)]
        c1    == Wrote(Attempted(cur, "Native"), w)
        head  == NativeHead \o Log("static_start", "debug")
    IN  /\ fs' = fs1
        /\ pc' = "progress"
        /\ UNCHANGED <<handled, encoded>>
        /\ CASE save = "raises" ->
                  /\ Emit(head \o Log("static_save_error", "error")
                          \o Log("error_stack", "debug")
                          \o <<ErrorEvent("static_save_error")>>, 0, 1)
                  /\ cur' = Failed(c1, 1)
             [] save = "saved" /\ ExistsNonEmpty(fs1, path) ->
                  /\ Emit(head \o Log("static_saved", "info"), 1, 0)
                  /\ cur' = Succeeded(c1, "Native")
             [] save = "saved" /\ ~ExistsNonEmpty(fs1, path) ->
                  /\ Emit(head \o Log("static_write_failed", "error")
                          \o <<ErrorEvent("static_write_failed")>>, 0, 1)
                  /\ cur' = Failed(c1, 1)

\* main.py:219-347
Native ==
    /\ pc = "native"
    /\ IF TryNative
          THEN \/ NativeOpenFails
               \/ \E n \in 2..MaxFrames, fail_at \in 1..MaxFrames :
                     /\ fail_at <= n
                     /\ NativeFrameReadFails(n, fail_at)
               \/ \E n \in 2..MaxFrames, save \in SaveOutcomes, w \in Writes :
                     \E declared \in [1..n -> DeclaredDurations],
                        update \in InfoUpdates :
                        NativeAnimated(n, declared, update, save, w)
               \/ \E save \in SaveOutcomes, w \in Writes : NativeStatic(save, w)
          ELSE /\ Emit(<<>>, 0, 0)
               /\ pc' = "progress"
               /\ UNCHANGED <<fs, cur, handled, encoded>>
    /\ UNCHANGED <<inputs, i, total, has_ffmpeg, has_webptools, converted, tmp,
                   result_dirs, progress_emitted, batch_errors, finished_events,
                   summary>>

(* ------------------------------- Spec ---------------------------------- *)

Next ==
    \/ Setup
    \/ BeginFile
    \/ SkipFile
    \/ BatchException
    \/ Precheck
    \/ Sniff
    \/ External
    \/ Library
    \/ Native
    \/ Progress
    \/ Summary

Spec == Init /\ [][Next]_vars

TypeOK ==
    /\ files \in Seq(Entries) /\ Len(files) <= MaxFiles
    /\ debug_mode \in BOOLEAN
    /\ pc \in {"start", "next", "precheck", "sniff", "external", "library",
               "native", "progress", "done"}
    /\ i \in 0..MaxFiles
    /\ total \in 0..MaxFiles
    /\ has_ffmpeg \in BOOLEAN /\ has_webptools \in BOOLEAN
    /\ success_count \in Nat /\ failed_count \in Nat
    /\ converted \in BOOLEAN
    /\ fs \in [OutputPaths -> FileStates]
    /\ tmp \in [TempPaths -> FileStates]
    /\ result_dirs \subseteq Dirs
    /\ Len(handled) <= i

(* =============================== claims ================================ *)

Last(s) == s[Len(s)]

\* the messages of the events of kind kind among evs, in order
Messages(evs, kind) ==
    LET sel == SelectSeq(evs, LAMBDA e : e.ev = kind)
    IN  [j \in 1..Len(sel) |-> sel[j].msg]

\* the inputs with the .webp extension among the first n
WebpAmong(n) == {k \in 1..n : files[k] # NotStr /\ IsWebp(files[k])}

\* position of a strategy in the cascade
Rank(strategy) ==
    CASE strategy = "External" -> 1
      [] strategy = "Library"  -> 2
      [] strategy = "Native"   -> 3

InSeq(x, s) == \E j \in 1..Len(s) : s[j] = x

(* C1: whenever run() is between two files (or past the last one), every   *)
(* file handled so far has been followed by exactly one progress event,    *)
(* of value floor(100 * k / T) for file k.                                 *)
C1_ProgressAfterEveryFile ==
    pc = "next" =>
        /\ Len(progress_emitted) = i
        /\ \A k \in 1..Len(progress_emitted) :
              progress_emitted[k] = [idx |-> k, val |-> (100 * k) \div total]

(* C2: a batch of T >= 1 files processed to the end has 100 as its last    *)
(* progress value.                                                         *)
C2_LastProgressIs100 ==
    (pc = "done" /\ finished_events = 1 /\ total >= 1) =>
        /\ progress_emitted # <<>>
        /\ Last(progress_emitted).val = 100

(* C3, as claimed: the total of the summary counts the inputs that have    *)
(* the .webp extension, the skipped ones excluded.                         *)
C3_TotalExcludesSkipped ==
    summary # <<>> => summary[1].total = Cardinality(WebpAmong(Len(files)))

(* C3, amended: the total of the summary is the number of inputs of the    *)
(* batch, skipped ones included; [a.webp, b.txt] with a.webp converted     *)
(* reports success=1, failed=0, total=2.                                   *)
C3_TotalCountsEveryInput ==
    summary # <<>> =>
        /\ Len(summary) = 1
        /\ summary[1].total = Len(files)
        /\ summary[1].success = success_count
        /\ summary[1].failed = failed_count
        /\ handled = <<"success", "skipped">> =>
              summary[1] = [success |-> 1, failed |-> 0, total |-> 2]

C3_Witness ==
    /\ summary # <<>>
    /\ handled = <<"success", "skipped">>
    /\ files[2].ext = "txt"

(* C4: the strategies of a file are attempted in the order External,       *)
(* Library, Native; once one has verified its output no later one is       *)
(* attempted and the file is a success exactly once; a verified ffmpeg     *)
(* run leaves webptools and PIL uninvoked and creates no temporary file.   *)
C4_FirstVerifiedStrategyWins ==
    /\ \A j, k \in 1..Len(cur.attempts) :
          j < k => Rank(cur.attempts[j]) < Rank(cur.attempts[k])
    /\ InSeq("External", cur.attempts) => has_ffmpeg
    /\ Len(cur.chosen) <= 1
    /\ cur.succ = Len(cur.chosen)
    /\ cur.chosen # <<>> => Last(cur.attempts) = cur.chosen[1]
    /\ cur.chosen = <<"External">> =>
          /\ cur.attempts = <<"External">>
          /\ ~cur.temp_created
          /\ pc \in {"library", "native", "progress", "next", "done"}

C4_Witness ==
    /\ pc = "progress"
    /\ cur.chosen = <<"External">>
    /\ success_count = 1

(* C5: a file that passed the preconditions is not failed, and has no      *)
(* error event, before PIL has run, however ffmpeg and webptools ended;    *)
(* PIL is attempted whenever neither of them verified an output; the file  *)
(* is counted failed only when PIL failed too.                             *)
C5_NativeIsTheLastResort ==
    /\ pc \in {"sniff", "external", "library", "native"} =>
          cur.fail = 0 /\ cur.errs = 0
    /\ (cur.passed /\ pc \in {"progress", "next", "done"}) =>
          \/ cur.chosen \in {<<"External">>, <<"Library">>}
          \/ InSeq("Native", cur.attempts)
    /\ (cur.passed /\ cur.fail > 0) =>
          /\ InSeq("Native", cur.attempts)
          /\ cur.chosen = <<>>
          /\ cur.fail = 1
          /\ cur.errs = 1

C5_Witness ==
    /\ pc = "progress"
    /\ cur.attempts = <<"External", "Library", "Native">>
    /\ cur.chosen = <<"Native">>
    /\ tmp[TempPng(files[i])] = "empty"

(* C6: no temporary raster file exists once the webptools strategy has     *)
(* run, so none exists in any state between two steps of run().            *)
C6_NoTempOutsideLibrary == \A t \in TempPaths : tmp[t] = "absent"

(* C7: with debug_mode false the log_message events of a step are the      *)
(* warnings, the errors and the summary line, in order; with debug_mode    *)
(* true they are all the messages passed to log().                         *)
C7_UiStream ==
    LET calls  == SelectSeq(out, LAMBDA e : e.ev = "log")
        loud   == SelectSeq(calls, LAMBDA e : \/ e.level \in {"warning", "error"}
                                               \/ e.msg = "summary")
    IN  Messages(out, "log_message") =
           IF debug_mode THEN Messages(calls, "log") ELSE Messages(loud, "log")

(* C8: a per-file failure never ends the batch: the run ends only after    *)
(* the last file, with the summary line and finished(), every file having  *)
(* been handled in input order; the one early end is an entry of the list  *)
(* that is no path at all.  Until the end a step is always possible.       *)
C8_FailureNeverEndsBatch ==
    /\ pc = "next" => Len(handled) = i
    /\ pc = "done" =>
          IF batch_errors > 0
             THEN /\ files[i] = NotStr
                  /\ Len(handled) = i - 1
             ELSE /\ i = Len(files)
                  /\ Len(handled) = Len(files)
                  /\ \A k \in 1..Len(files) :
                        handled[k] = "skipped" <=> k \notin WebpAmong(Len(files))
                  /\ summary # <<>>
                  /\ finished_events = 1
    /\ pc # "done" => ENABLED Next

C8_Witness ==
    /\ pc = "done"
    /\ handled = <<"failed", "success">>
    /\ finished_events = 1

(* C9: every run that ends has reported the summary with the counts        *)
(* accumulated so far.                                                     *)
C9_SummaryAlwaysReported ==
    pc = "done" =>
        summary = <<[success |-> success_count, failed |-> failed_count,
                     total |-> total]>>

(* C10: a run ends with exactly one terminal event: finished(), emitted    *)
(* once, last, right after the summary line, when the loop completes; or   *)
(* the one error event of the batch-level handler, and then no finished(). *)
C10_OneTerminalEvent ==
    /\ pc # "done" => finished_events = 0 /\ batch_errors = 0
    /\ pc = "done" => finished_events + batch_errors = 1
    /\ \A j \in 1..Len(out) : out[j].ev = "finished" => j = Len(out) /\ pc = "done"
    /\ finished_events = 1 =>
          /\ i = total
          /\ summary # <<>>
          /\ out = Log("summary", "info") \o <<FinishedEvent>>
    /\ batch_errors = 1 =>
          /\ ErrorsIn(out) = 1
          /\ Last(out) = ErrorEvent("batch_exception")
    /\ pc = "done" => ~ENABLED Next

C10_Witness ==
    /\ pc = "done"
    /\ finished_events = 1
    /\ Len(progress_emitted) = 2

(* C11: every step that increments success_count increments it by one, is  *)
(* a step of one of the three strategies, and ends with the output path of *)
(* the file holding a file of size > 0: the count follows the check that   *)
(* the output exists and is not empty.                                     *)
C11_SuccessOnlyAfterVerification ==
    [][success_count' # success_count =>
          /\ success_count' = success_count + 1
          /\ pc \in {"external", "library", "native"}
          /\ fs'[OutputPath(files[i])] = "data"
          /\ Len(cur'.chosen) = Len(cur.chosen) + 1]_vars

C11_Witness ==
    /\ cur.chosen = <<"Library">>
    /\ success_count = 2
    /\ fs[OutputPath(files[i])] = "data"

\* the log calls of level level among evs
LogsAt(evs, level) == SelectSeq(evs, LAMBDA e : e.ev = "log" /\ e.level = level)

(* C12: an input without the .webp extension gets no precondition check   *)
(* and no strategy: the step that takes it logs one warning and nothing    *)
(* else, emits no error event, leaves both counters and the disk alone,    *)
(* and is followed by the progress event only.                             *)
C12_SkippedInputHasNoEffect ==
    [][/\ (i' = i + 1 /\ files[i'] # NotStr /\ ~IsWebp(files[i'])) =>
             /\ pc' = "progress"
             /\ cur' = NoFile
             /\ <<success_count, failed_count, error_events>>' =
                   <<success_count, failed_count, error_events>>
             /\ disk' = disk
             /\ Messages(out', "log") = <<"skip_non_webp">>
             /\ Len(LogsAt(out', "warning")) = 1
             /\ ErrorsIn(out') = 0
       /\ (pc = "progress" /\ ~IsWebp(files[i])) =>
             /\ pc' = "next"
             /\ <<success_count, failed_count, error_events>>' =
                   <<success_count, failed_count, error_events>>
             /\ disk' = disk
             /\ Messages(out', "log") = <<>>
             /\ Last(handled') = "skipped"]_vars

C12_Witness ==
    /\ pc = "progress"
    /\ i = 2
    /\ files[2].ext = "txt"
    /\ success_count = 1
    /\ out = Log("skip_non_webp", "warning")

\* what the calls of fn among evs returned, in order
Calls(evs, fn) ==
    LET sel == SelectSeq(evs, LAMBDA e : e.ev = "call" /\ e.msg = fn)
    IN  [j \in 1..Len(sel) |-> sel[j].val]

\* the functions called among evs, in order
Called(evs) == Messages(evs, "call")

(* C13: a .webp input is checked in the order exists, size, result         *)
(* directory, and the first check that fails ends its handling: the file   *)
(* is counted failed once with one error event, no strategy is attempted   *)
(* and the disk is left as it was; an input of size 0 fails as empty, and  *)
(* os.makedirs is not called for it.  A strategy is attempted only for a   *)
(* file that passed the three checks.                                      *)
C13_PreconditionFailure ==
    [][/\ pc = "precheck" =>
             LET exists  == Calls(out', "os.path.exists")
                 getsize == Calls(out', "os.path.getsize")
                 mkdirs  == Calls(out', "os.makedirs")
                 errors  == Messages(out', "error")
                 failure ==
                     /\ pc' = "next"
                     /\ failed_count' = failed_count + 1
                     /\ success_count' = success_count
                     /\ cur'.fail = 1 /\ cur'.succ = 0 /\ cur'.attempts = <<>>
                     /\ Last(handled') = "failed"
                     /\ disk' = disk
             IN  /\ Called(out') \in {<<"os.path.exists">>,
                                      <<"os.path.exists", "os.path.getsize">>,
                                      <<"os.path.exists", "os.path.getsize", "os.makedirs">>}
                 /\ CASE exists = <<"missing">> ->
                            failure /\ errors = <<"file_missing">> /\ getsize = <<>>
                      [] exists = <<"found">> /\ getsize = <<"empty">> ->
                            failure /\ errors = <<"file_empty">> /\ mkdirs = <<>>
                      [] exists = <<"found">> /\ getsize # <<"empty">>
                            /\ mkdirs = <<"raises">> ->
                            failure /\ errors = <<"output_dir_failed">>
                      [] exists = <<"found">> /\ getsize # <<"empty">>
                            /\ mkdirs = <<"ok">> ->
                            /\ pc' = "sniff"
                            /\ cur'.passed
                            /\ errors = <<>>
                            /\ failed_count' = failed_count
       /\ cur'.attempts # <<>> => cur'.passed]_vars

C13_Witness ==
    /\ pc = "next"
    /\ i = 1
    /\ Calls(out, "os.path.getsize") = <<"empty">>
    /\ failed_count = 1
    /\ result_dirs = {}

(* C14: right after the ffmpeg step, the strategy has succeeded exactly    *)
(* when the process exited with code 0 and the output path then holds a    *)
(* file of size > 0; after any other exit, and after exit 0 without such   *)
(* a file, nothing is counted and converted stays false, so that the next  *)
(* strategy is attempted.                                                  *)
C14_ExternalSuccess ==
    /\ pc = "library" =>
          LET runs == Calls(out, "subprocess.run")
              ok   == runs = <<"exit0">> /\ fs[OutputPath(files[i])] = "data"
          IN  /\ Len(runs) = IF has_ffmpeg THEN 1 ELSE 0
              /\ InSeq("External", cur.attempts) <=> has_ffmpeg
              /\ (cur.chosen = <<"External">>) <=> ok
              /\ converted <=> ok
              /\ cur.succ = IF ok THEN 1 ELSE 0
              /\ cur.fail = 0 /\ cur.errs = 0 /\ ErrorsIn(out) = 0
    /\ (InSeq("External", cur.attempts) /\ pc # "library") =>
          \/ cur.chosen = <<"External">>
          \/ InSeq("Library", cur.attempts)

C14_Witness ==
    /\ pc = "library"
    /\ Calls(out, "subprocess.run") = <<"nonzero">>
    /\ fs[OutputPath(files[i])] = "data"
    /\ ~converted

(* C15: after the animated path of PIL handled an input of N frames that   *)
(* declare the durations d1..dN, the multi-frame encoder has been called   *)
(* once for the file, with frame 0 as base and frames 1..N-1 appended in   *)
(* order, with the durations [d1..dN], 100 for a frame that declares       *)
(* none, and with loop 0.                                                  *)
C15_AnimatedEncoderCall ==
    (pc = "progress" /\ Calls(out, "Image.open") # <<>>) =>
        LET declared == Calls(out, "Image.open")[1]
            N        == Len(declared)
        IN  /\ Len(encoded) = 1
            /\ encoded[1].base.frame = 0
            /\ Len(encoded[1].append_images) = N - 1
            /\ \A k \in 1..(N - 1) : encoded[1].append_images[k].frame = k
            /\ encoded[1].duration =
                  [k \in 1..N |-> IF declared[k] = NoDuration
                                     THEN 100 ELSE declared[k]]
            /\ encoded[1].loop = 0

(* C16: when reading a frame of an animated input raises, the step calls   *)
(* no encoder and writes no output, whatever number of frames was read     *)
(* before; the file is counted failed once, with one error event, and the  *)
(* run goes on to the next file.                                           *)
C16_FrameReadErrorDiscardsFrames ==
    [][InSeq("frame_read_error", Messages(out', "error")) =>
          /\ pc = "native" /\ pc' = "next"
          /\ encoded' = <<>>
          /\ disk' = disk
          /\ failed_count' = failed_count + 1
          /\ success_count' = success_count
          /\ error_events' = error_events + 1
          /\ cur'.fail = 1 /\ cur'.succ = 0
          /\ handled' = Append(handled, "failed")
          /\ i' = i]_vars

C16_Witness ==
    /\ pc = "next"
    /\ InSeq("frame_read_error", Messages(out, "error"))
    /\ Len(SelectSeq(out, LAMBDA e : e.msg = "frame_read")) = 1
    /\ i < total

(* C17: check_tools returns, for every way the version query can end, a    *)
(* snapshot with both flags, and the ffmpeg flag is false after a non-zero *)
(* exit, a missing binary and any other exception; run() takes the         *)
(* snapshot once, before the first file, never changes it, and attempts    *)
(* ffmpeg for a file only if the snapshot said it is available.            *)
C17_ToolSnapshot ==
    /\ [](/\ \A probe \in ProbeOutcomes :
               LET tools == check_tools(probe)
               IN  /\ {"ffmpeg", "webptools"} \subseteq DOMAIN tools
                   /\ tools.ffmpeg \in BOOLEAN /\ tools.webptools \in BOOLEAN
                   /\ (probe \in {"nonzero", "notfound", "exception"}) => ~tools.ffmpeg
          /\ pc = "start" => (i = 0 /\ handled = <<>> /\ cur = NoFile)
          /\ (pc = "next" /\ i = 0) =>
                /\ Len(Calls(out, "ffmpeg -version")) = 1
                /\ has_ffmpeg => (Calls(out, "ffmpeg -version") = <<"exit0">>)
          /\ Calls(out, "ffmpeg -version") # <<>> => (pc = "next" /\ i = 0)
          /\ InSeq("External", cur.attempts) => has_ffmpeg
          /\ (pc = "library" /\ ~has_ffmpeg) =>
                /\ Calls(out, "subprocess.run") = <<>>
                /\ cur.attempts = <<>>)
    /\ [][/\ pc = "start" => (pc' = "next" /\ i' = 0)
          /\ pc # "start" =>
                /\ has_ffmpeg' = has_ffmpeg
                /\ has_webptools' = has_webptools]_vars

C17_Witness ==
    /\ pc = "library"
    /\ ~has_ffmpeg
    /\ cur.attempts = <<>>
    /\ i = 2
    /\ handled = <<"success">>

(* C18: while no batch-level exception has happened, the number of error   *)
(* events emitted equals failed_count; a step emits at most one, and only  *)
(* for a .webp input that it counts failed and that is no success.         *)
C18_ErrorEventsEqualFailures ==
    batch_errors = 0 =>
        /\ error_events = failed_count
        /\ ErrorsIn(out) <= 1
        /\ ErrorsIn(out) = 1 =>
              /\ cur.fail = 1 /\ cur.succ = 0
              /\ IsWebp(files[i])
              /\ pc \in {"next", "progress"}
        /\ pc = "next" =>
              failed_count = Cardinality({k \in 1..Len(handled) : handled[k] = "failed"})

C18_Witness ==
    /\ pc = "done"
    /\ batch_errors = 0
    /\ handled = <<"failed", "failed">>
    /\ error_events = 2

\* the values int((k / t) * 100) of a batch of t files, in file order
ProgressValues(t) == [k \in 1..t |-> FloatPercent(k, t)]

\* for every batch length up to MaxTotal, and for 50 files, where
\* int((29 / 50) * 100) is 57 and not 58, the values are within 0..100 and
\* never decrease from one file to the next
ProgressValuesMonotone ==
    \A t \in (1..MaxTotal) \cup {50} :
        LET values == ProgressValues(t)
        IN  /\ \A k \in 1..t : values[k] \in 0..100
            /\ \A k \in 1..(t - 1) : values[k] <= values[k + 1]

(* C19: the progress values emitted so far are integers within 0..100 and  *)
(* never decrease, whatever happened to the files; they are taken, in      *)
(* file order, from the values int((k / total) * 100), which for every     *)
(* batch length up to MaxTotal, and for 50 files, are within 0..100 and    *)
(* never decrease.                                                         *)
C19_ProgressNonDecreasing ==
    /\ \A k \in 1..Len(progress_emitted) :
          /\ progress_emitted[k].val \in 0..100
          /\ progress_emitted[k].val = PercentTable[total][progress_emitted[k].idx]
    /\ \A j, k \in 1..Len(progress_emitted) :
          j < k => /\ progress_emitted[j].idx < progress_emitted[k].idx
                   /\ progress_emitted[j].val <= progress_emitted[k].val
    /\ ProgressValuesMonotone

C19_Witness ==
    /\ pc = "next"
    /\ handled = <<"failed", "skipped">>
    /\ progress_emitted = <<[idx |-> 1, val |-> 50], [idx |-> 2, val |-> 100]>>

(* C20: between two files success_count + failed_count is the number of    *)
(* .webp inputs handled so far; every such input is a success or a         *)
(* failure, never both and never neither, and every other input is         *)
(* skipped; the summary reports success + failed = number of .webp inputs. *)
C20_EveryWebpCountedOnce ==
    /\ cur.succ + cur.fail <= 1
    /\ \A k \in 1..Len(handled) :
          IF k \in WebpAmong(Len(files))
             THEN handled[k] \in {"success", "failed"}
             ELSE handled[k] = "skipped"
    /\ pc = "next" =>
          /\ success_count + failed_count = Cardinality(WebpAmong(i))
          /\ success_count = Cardinality({k \in 1..i : handled[k] = "success"})
          /\ failed_count = Cardinality({k \in 1..i : handled[k] = "failed"})
    /\ summary # <<>> =>
          summary[1].success + summary[1].failed = Cardinality(WebpAmong(Len(files)))

C20_Witness ==
    /\ pc = "done"
    /\ handled = <<"success", "failed">>
    /\ summary = <<[success |-> 1, failed |-> 1, total |-> 2]>>

(* C21: a file is a success only if a strategy wrote its output path       *)
(* while that file was being converted: a file that was at the output      *)
(* path before is never what passes the check for existence and size.      *)
C21_VerifiedOutputIsFresh ==
    cur.succ > 0 => cur.wrote

(* C22: while an input is being converted, its output path and its         *)
(* temporary raster path differ from those of every other input of the     *)
(* batch that was converted before it, so no strategy writes over the      *)
(* output of an earlier success.                                           *)
C22_DistinctInputsDistinctOutputs ==
    \A j \in 1..Len(handled) :
        (/\ pc \in {"sniff", "external", "library", "native", "progress"}
         /\ IsWebp(files[i])
         /\ handled[j] = "success"
         /\ files[j] # files[i]) =>
            /\ OutputPath(files[j]) # OutputPath(files[i])
            /\ TempPng(files[j]) # TempPng(files[i])
            /\ ~cur.wrote

=============================================================================
